---- MODULE Spec2Model ----
(***************************************************************************)
(* Provisioning pipeline of the Yandex.Direct integration:                 *)
(*   YandexDirectAPIClient (create_campaign, create_ad_groups,             *)
(*   create_keywords, create_ads, _make_request) and                       *)
(*   YandexDirectCampaignManager.create_full_campaign_from_strategy.       *)
(* A run is one call of create_full_campaign_from_strategy; it is split at *)
(* its awaits, one step per request sent to the platform.                  *)
(***************************************************************************)
EXTENDS Integers, Sequences, FiniteSets, TLC

\* Bounds of the model.
MaxGroups == 2      \* ad groups in strategy_config["ad_groups"]
MaxItems == 2       \* keywords (ads) configured for one ad group
MaxRuns == 2        \* calls of create_full_campaign_from_strategy in SpecRerun
RerunGroups == 1    \* ad groups of the plans provisioned repeatedly in SpecRerun

VARIABLES
    strategy_config,  \* the plan passed to the orchestrator
    pc,               \* position of the orchestrator inside the run
    campaign_id,      \* local campaign_id, 0 while unset
    group_ids,        \* groups_result["group_ids"]
    i,                \* index of the enumerate loop in progress (1-based)
    calls,            \* the client calls of this run, in order, with their outcome
    summary,          \* value returned to the caller of the run
    remote,           \* resources that exist on the platform
    next_id,          \* next ID the platform hands out
    run,              \* number of the current run
    run_base,         \* value of next_id when the current run began
    outcomes          \* outcomes of the runs that ended before the current one

\* _calculate_budget_and_forecast
VARIABLES
    budget_daily,       \* business_info.budget_daily
    tier_sizes,         \* lengths of the three tiers of semantic_core
    budget_allocation,  \* the returned budget_allocation
    alloc_pc            \* "start" before the call, "done" after it

\* create_campaign_interactive
VARIABLES
    plan_pc,            \* the step of create_campaign_interactive to run next
    business_info,      \* website, description and budget_daily of BusinessInfo
    entered,            \* the budget inputs the prompt has turned down
    effects,            \* requests sent and files written, in order
    plan,               \* what the steps have returned so far
    replies,            \* how each request of the run was answered
    plan_file           \* what campaign_plan_<time>.json holds

\* optimize_keyword_bids and update_bids of YandexDirectAPIClient
VARIABLES
    keyword_bids,       \* the list the caller passes to optimize_keyword_bids
    target_position,    \* the target position the caller passes
    optimized_bids,     \* what optimize_keyword_bids returned
    rebid_pc,           \* "start", then "optimized" or "raised"
    client,             \* use_sandbox and api_url of the client
    requests            \* the requests the client has sent, in order

\* _create_semantic_core_with_yandex
VARIABLES
    ai_answer,          \* what the keyword request of _generate_ai_keywords gave
    suggestions,        \* what yandex_client.get_keyword_suggestions returned
    semantic_core,      \* the SemanticCore returned, or the error raised
    core_pc             \* "start" before the call, "done" after it

\* create_campaign_automatically
VARIABLES
    campaign_plan,      \* the plan the caller passes
    campaign_result,    \* the CampaignResult returned, or the error raised
    auto_pc,            \* "start" before the call, "done" after it
    platform_requests   \* the requests yandex_client has sent

provVars == <<strategy_config, pc, campaign_id, group_ids, i, calls, summary,
              remote, next_id, run, run_base, outcomes>>

allocVars == <<budget_daily, tier_sizes, budget_allocation, alloc_pc>>

planVars == <<plan_pc, business_info, entered, effects, plan, replies, plan_file>>

rebidVars == <<keyword_bids, target_position, optimized_bids, rebid_pc, client, requests>>

coreVars == <<ai_answer, suggestions, semantic_core, core_pc>>

autoVars == <<campaign_plan, campaign_result, auto_pc, platform_requests>>

vars == <<provVars, allocVars, planVars, rebidVars, coreVars, autoVars>>

\* what a step of one component leaves alone
notProv == <<allocVars, planVars, rebidVars, coreVars, autoVars>>

notAlloc == <<provVars, planVars, rebidVars, coreVars, autoVars>>

notPlan == <<provVars, allocVars, rebidVars, coreVars, autoVars>>

notRebid == <<provVars, allocVars, planVars, coreVars, autoVars>>

notCore == <<provVars, allocVars, planVars, rebidVars, autoVars>>

notAuto == <<provVars, allocVars, planVars, rebidVars, coreVars>>

----------------------------------------------------------------------------
\* The plan: strategy_config["ad_groups"][g]["keywords"] and ["ads"] are
\* lists; the model keeps their lengths.

GroupConfigs == [keywords : 0..MaxItems, ads : 0..MaxItems]

Plans(maxg) == UNION { [1..g -> GroupConfigs] : g \in 0..maxg }

groups_config == strategy_config.ad_groups

----------------------------------------------------------------------------
\* The platform.  A batch of n items is answered by a transport failure
\* (no connection, timeout, HTTP status other than 200), by an error object
\* in the body, or by AddResults holding one item per submitted item, each
\* item either {"Id": id} (modelled as id > 0) or {"Errors": [...]} (0).
\* Items the platform accepts are created even when others are rejected.

CountTrue(f, upto) == Cardinality({k \in 1..upto : f[k]})

AddResults(accepted, n, base) ==
    [j \in 1..n |-> IF accepted[j] THEN base + CountTrue(accepted, j) - 1 ELSE 0]

Responses(n, base) ==
    {[kind |-> "transport", items |-> <<>>],
     [kind |-> "api_error", items |-> <<>>]}
    \cup {[kind |-> "result", items |-> AddResults(a, n, base)] :
             a \in [1..n -> BOOLEAN]}

Created(resp) == {j \in 1..Len(resp.items) : resp.items[j] > 0}

NewResources(kind, parent, resp) ==
    {[kind |-> kind, id |-> resp.items[j], parent |-> parent, item |-> j] :
        j \in Created(resp)}

----------------------------------------------------------------------------
\* The resource client.

\* a _make_request that swallows the exception and hands back an empty result
MakeRequestSwallows(resp) ==
    [raised |-> FALSE, AddResults |-> resp.items]

\* _make_request: raises unless HTTP 200 without "error"; else result["result"].
MakeRequest(resp) ==
    [raised |-> resp.kind # "result", AddResults |-> resp.items]

\* The loop over result["AddResults"]: IDs of the items with "Id", and the
\* errors of the items with "Errors".
\* the IDs collected in reverse order
CollectIdsReversed(items) ==
    LET ids == SelectSeq(items, LAMBDA x : x > 0)
    IN  [j \in 1..Len(ids) |-> ids[Len(ids) + 1 - j]]

CollectIds(items) == SelectSeq(items, LAMBDA x : x > 0)

\* the loop without its elif "Errors" branch
CollectErrorsNone(items) == <<>>

CollectErrors(items) == SelectSeq(items, LAMBDA x : x = 0)

\* the IDs returned without the check of errors
ReturnDespiteErrors(items) ==
    [raised |-> FALSE, ids |-> CollectIds(items)]

\* if errors: raise ... ; return {"..._ids": ids}
RaiseOnErrors(items) ==
    IF Len(CollectErrors(items)) > 0
    THEN [raised |-> TRUE, ids |-> <<>>]
    ELSE [raised |-> FALSE, ids |-> CollectIds(items)]

BatchCreate(resp) ==
    LET r == MakeRequest(resp)
    IN  IF r.raised THEN [raised |-> TRUE, ids |-> <<>>]
        ELSE RaiseOnErrors(r.AddResults)

\* The four create operations share the request / collect / raise pattern.
\* create_campaign also raises when the result has no AddResults; a result
\* of the platform always carries AddResults here.
create_campaign(resp) == BatchCreate(resp)

\* a create_ad_groups that returns the IDs of the groups that were created
create_ad_groups_partial(resp) ==
    IF MakeRequest(resp).raised THEN [raised |-> TRUE, ids |-> <<>>]
    ELSE [raised |-> FALSE, ids |-> CollectIds(resp.items)]

create_ad_groups(resp) == BatchCreate(resp)

\* a create_keywords that logs the exception and returns
create_keywords_lenient(resp) ==
    [raised |-> FALSE, ids |-> BatchCreate(resp).ids]

create_keywords(resp) == BatchCreate(resp)

\* a create_ads that returns the IDs of the ads that were created
create_ads_partial(resp) ==
    IF MakeRequest(resp).raised THEN [raised |-> TRUE, ids |-> <<>>]
    ELSE [raised |-> FALSE, ids |-> CollectIds(resp.items)]

create_ads(resp) == BatchCreate(resp)

\* One entry of calls: the request, the platform's answer, the call's outcome.
Call(service, parent, index, n, resp, r) ==
    [service |-> service, parent |-> parent, index |-> index, n |-> n,
     kind |-> resp.kind, items |-> resp.items,
     raised |-> r.raised, ids |-> r.ids]

----------------------------------------------------------------------------
\* The orchestrator: create_full_campaign_from_strategy.

NoResult == [campaign_id |-> 0, groups_count |-> 0, status |-> "none"]

\* groups_count taken from the last loop index
SummaryOffByOne(cid, gids) ==
    [campaign_id |-> cid, groups_count |-> Len(gids) + 1, status |-> "created_in_draft"]

\* campaign_summary
Summary(cid, gids) ==
    [campaign_id |-> cid, groups_count |-> Len(gids), status |-> "created_in_draft"]

\* a call that takes the items out of the list it is given
ConfigDrained(config, g, part) ==
    [config EXCEPT !.ad_groups[g] =
        IF part = "keywords" THEN [@ EXCEPT !.keywords = 0] ELSE [@ EXCEPT !.ads = 0]]

\* strategy_config after create_keywords or create_ads was given the list of
\* group g: the lists are read with .get and the request is built from new
\* dicts, nothing is assigned to the plan.
ConfigAfterCall(config, g, part) == config

\* an except branch that logs and goes on
PropagateSwallow(raised, next) == next

\* an except branch that goes on after the campaign stage only
PropagateAfterRoot(raised, next) ==
    IF raised /\ next # "groups" THEN "raised" ELSE next

\* try: ... except Exception: raise -- an exception of any call ends the run.
Propagate(raised, next) == IF raised THEN "raised" ELSE next

\* a loop that leaves out every second group
NextIndexSkips(k) == k + 2

\* a loop that goes from the second group back to the first
NextIndexBack(k) == IF k = 2 THEN 1 ELSE k + 1

\* a loop that stays on the same group
NextIndexStuck(k) == k

\* enumerate(groups_result["group_ids"]) advances to the next group.
NextIndex(k) == k + 1

\* an entry that reuses the campaign of the previous run
RunEntryReuse(prev) ==
    IF prev # 0 THEN [pc |-> "groups", campaign_id |-> prev]
    ELSE [pc |-> "campaign", campaign_id |-> 0]

\* Entry of a run: the locals are fresh and the first statement is the
\* campaign create; prev is the campaign_id of the previous run.
RunEntry(prev) == [pc |-> "campaign", campaign_id |-> 0]

Terminal == pc \in {"returned", "raised"}

\* the other components at rest while one of them runs
NoAllocation ==
    [daily_budget |-> 0, high_priority_percent |-> 0, medium_priority_percent |-> 0,
     low_priority_percent |-> 0, high_priority_budget |-> 0,
     medium_priority_budget |-> 0, low_priority_budget |-> 0, status |-> "none"]

AllocIdle ==
    /\ budget_daily = 0
    /\ tier_sizes = [high |-> 0, medium |-> 0, low |-> 0]
    /\ budget_allocation = NoAllocation
    /\ alloc_pc = "idle"

\* a dict of the keyword lists: the keys it has, and the lists under them
NoKeywords ==
    [keys |-> {}, high_priority |-> <<>>, medium_priority |-> <<>>,
     low_priority |-> <<>>, negative_keywords |-> <<>>]

NoCore ==
    [status |-> "none", high_priority |-> <<>>, medium_priority |-> <<>>,
     low_priority |-> <<>>, negative_keywords |-> <<>>, yandex_suggestions |-> <<>>]

CoreIdle ==
    /\ ai_answer = [kind |-> "exception", dict |-> NoKeywords]
    /\ suggestions = <<>>
    /\ semantic_core = NoCore
    /\ core_pc = "idle"

NoAnalysis == [status |-> "none", keywords |-> <<>>]

NoPlan ==
    [analysis |-> NoAnalysis, core |-> NoCore, creatives |-> "none",
     budget_allocation |-> NoAllocation]

NoReplies ==
    [analysis |-> "none", keywords |-> "none", suggestions |-> "none",
     creatives |-> "none"]

NoFile == [written |-> FALSE, business_info |-> <<>>, plan |-> <<>>]

PlanIdle ==
    /\ plan_pc = "idle"
    /\ business_info = [website |-> FALSE, description |-> "", budget_daily |-> 0]
    /\ entered = <<>>
    /\ effects = <<>>
    /\ plan = NoPlan
    /\ replies = NoReplies
    /\ plan_file = NoFile

Clients ==
    {[use_sandbox |-> TRUE,  api_url |-> "https://api-sandbox.direct.yandex.com/json/v5"],
     [use_sandbox |-> FALSE, api_url |-> "https://api.direct.yandex.com/json/v5"]}

RebidIdle ==
    /\ keyword_bids = <<>>
    /\ target_position = 3
    /\ optimized_bids = <<>>
    /\ rebid_pc = "idle"
    /\ client = [use_sandbox |-> TRUE,
                 api_url |-> "https://api-sandbox.direct.yandex.com/json/v5"]
    /\ requests = <<>>

NoCampaignResult ==
    [status |-> "none", campaign_id |-> 0, adgroup_ids |-> <<>>,
     keyword_ids |-> <<>>, ad_ids |-> <<>>]

AutoIdle ==
    /\ campaign_plan = [title |-> "", budget_daily |-> 0,
                        expected_performance |-> [keys |-> {}, cost_per_conversion |-> 0]]
    /\ campaign_result = NoCampaignResult
    /\ auto_pc = "idle"
    /\ platform_requests = <<>>

ProvIdle ==
    /\ strategy_config = [ad_groups |-> <<>>]
    /\ pc = "idle"
    /\ campaign_id = 0
    /\ group_ids = <<>>
    /\ i = 1
    /\ calls = <<>>
    /\ summary = NoResult
    /\ remote = {}
    /\ next_id = 1
    /\ run = 1
    /\ run_base = 1
    /\ outcomes = <<>>

InitWith(plans) ==
    /\ strategy_config \in {[ad_groups |-> p] : p \in plans}
    /\ pc = RunEntry(0).pc
    /\ campaign_id = RunEntry(0).campaign_id
    /\ group_ids = <<>>
    /\ i = 1
    /\ calls = <<>>
    /\ summary = NoResult
    /\ remote = {}
    /\ next_id = 1
    /\ run = 1
    /\ run_base = 1
    /\ outcomes = <<>>
    /\ AllocIdle
    /\ PlanIdle
    /\ RebidIdle
    /\ CoreIdle
    /\ AutoIdle

Init == InitWith(Plans(MaxGroups))

\* 1. campaign_result = await create_campaign(...); campaign_id = ...["campaign_ids"][0]
CreateCampaign ==
    /\ pc = "campaign"
    /\ \E resp \in Responses(1, next_id) :
         LET r == create_campaign(resp)
             failed == r.raised \/ Len(r.ids) = 0
         IN  /\ calls' = Append(calls, Call("campaigns", 0, 0, 1, resp, r))
             /\ remote' = remote \cup NewResources("campaign", 0, resp)
             /\ next_id' = next_id + Cardinality(Created(resp))
             /\ campaign_id' = IF Len(r.ids) > 0 THEN r.ids[1] ELSE campaign_id
             /\ pc' = Propagate(failed, "groups")
    /\ UNCHANGED notProv
    /\ UNCHANGED <<strategy_config, group_ids, i, summary, run, run_base, outcomes>>

\* 2. groups_result = await create_ad_groups(campaign_id, groups_config)
CreateAdGroups ==
    /\ pc = "groups"
    /\ \E resp \in Responses(Len(groups_config), next_id) :
         LET r == create_ad_groups(resp)
         IN  /\ calls' = Append(calls,
                    Call("adgroups", campaign_id, 0, Len(groups_config), resp, r))
             /\ remote' = remote \cup NewResources("adgroup", campaign_id, resp)
             /\ next_id' = next_id + Cardinality(Created(resp))
             /\ group_ids' = r.ids
             /\ pc' = Propagate(r.raised, "keywords")
    /\ i' = 1
    /\ UNCHANGED notProv
    /\ UNCHANGED <<strategy_config, campaign_id, summary, run, run_base, outcomes>>

\* 3. for i, group_id in enumerate(group_ids): if keywords_config: create_keywords
KeywordsStep ==
    /\ pc = "keywords"
    /\ i <= Len(group_ids)
    /\ i <= Len(groups_config)
    /\ groups_config[i].keywords > 0
    /\ \E resp \in Responses(groups_config[i].keywords, next_id) :
         LET r == create_keywords(resp)
         IN  /\ calls' = Append(calls,
                    Call("keywords", group_ids[i], i, groups_config[i].keywords, resp, r))
             /\ remote' = remote \cup NewResources("keyword", group_ids[i], resp)
             /\ next_id' = next_id + Cardinality(Created(resp))
             /\ pc' = Propagate(r.raised, "keywords")
             /\ i' = IF r.raised THEN i ELSE NextIndex(i)
    /\ strategy_config' = ConfigAfterCall(strategy_config, i, "keywords")
    /\ UNCHANGED notProv
    /\ UNCHANGED <<campaign_id, group_ids, summary, run, run_base, outcomes>>

\* the iteration of loop 3 for a group without keywords
KeywordsSkip ==
    /\ pc = "keywords"
    /\ i <= Len(group_ids)
    /\ ~(i <= Len(groups_config) /\ groups_config[i].keywords > 0)
    /\ i' = NextIndex(i)
    /\ UNCHANGED notProv
    /\ UNCHANGED <<strategy_config, pc, campaign_id, group_ids, calls, summary,
                   remote, next_id, run, run_base, outcomes>>

\* loop 3 is exhausted, loop 4 begins
KeywordsDone ==
    /\ pc = "keywords"
    /\ i > Len(group_ids)
    /\ pc' = "ads"
    /\ i' = 1
    /\ UNCHANGED notProv
    /\ UNCHANGED <<strategy_config, campaign_id, group_ids, calls, summary,
                   remote, next_id, run, run_base, outcomes>>

\* 4. for i, group_id in enumerate(group_ids): if ads_config: create_ads
AdsStep ==
    /\ pc = "ads"
    /\ i <= Len(group_ids)
    /\ i <= Len(groups_config)
    /\ groups_config[i].ads > 0
    /\ \E resp \in Responses(groups_config[i].ads, next_id) :
         LET r == create_ads(resp)
         IN  /\ calls' = Append(calls,
                    Call("ads", group_ids[i], i, groups_config[i].ads, resp, r))
             /\ remote' = remote \cup NewResources("ad", group_ids[i], resp)
             /\ next_id' = next_id + Cardinality(Created(resp))
             /\ pc' = Propagate(r.raised, "ads")
             /\ i' = IF r.raised THEN i ELSE NextIndex(i)
    /\ strategy_config' = ConfigAfterCall(strategy_config, i, "ads")
    /\ UNCHANGED notProv
    /\ UNCHANGED <<campaign_id, group_ids, summary, run, run_base, outcomes>>

\* the iteration of loop 4 for a group without ads
AdsSkip ==
    /\ pc = "ads"
    /\ i <= Len(group_ids)
    /\ ~(i <= Len(groups_config) /\ groups_config[i].ads > 0)
    /\ i' = NextIndex(i)
    /\ UNCHANGED notProv
    /\ UNCHANGED <<strategy_config, pc, campaign_id, group_ids, calls, summary,
                   remote, next_id, run, run_base, outcomes>>

\* 5. campaign_summary = {...}; return campaign_summary
Finish ==
    /\ pc = "ads"
    /\ i > Len(group_ids)
    /\ summary' = Summary(campaign_id, group_ids)
    /\ pc' = "returned"
    /\ UNCHANGED notProv
    /\ UNCHANGED <<strategy_config, campaign_id, group_ids, i, calls,
                   remote, next_id, run, run_base, outcomes>>

Next ==
    \/ CreateCampaign
    \/ CreateAdGroups
    \/ KeywordsStep
    \/ KeywordsSkip
    \/ KeywordsDone
    \/ AdsStep
    \/ AdsSkip
    \/ Finish

Spec == Init /\ [][Next]_vars

----------------------------------------------------------------------------
\* Several runs on the same manager object with the same plan.

InitRerun == InitWith(Plans(RerunGroups))

\* create_full_campaign_from_strategy is called again with the same plan.
Rerun ==
    /\ Terminal
    /\ run < MaxRuns
    /\ run' = run + 1
    /\ outcomes' = Append(outcomes, pc)
    /\ pc' = RunEntry(campaign_id).pc
    /\ campaign_id' = RunEntry(campaign_id).campaign_id
    /\ group_ids' = <<>>
    /\ i' = 1
    /\ calls' = <<>>
    /\ summary' = NoResult
    /\ run_base' = next_id
    /\ UNCHANGED notProv
    /\ UNCHANGED <<strategy_config, remote, next_id>>

NextRerun ==
    \/ Next
    \/ Rerun

SpecRerun == InitRerun /\ [][NextRerun]_vars

----------------------------------------------------------------------------
\* The budget allocation: ProfessionalCampaignManager._calculate_budget_and_forecast.

\* Bounds of the inputs of the allocation.
MaxBudget == 40       \* budgets -MaxBudget..MaxBudget, and the STANDARD tier's 3500
MaxTierSize == 5      \* keywords in one tier of the semantic core

\* The shares of the tiers, in percent.
high_priority_percent == 60
medium_priority_percent == 30
low_priority_percent == 10

BudgetValues == ((0 - MaxBudget)..MaxBudget) \cup {3500}

TierSizes == [high : 0..MaxTierSize, medium : 0..MaxTierSize, low : 0..MaxTierSize]

\* an int() that rounds away from zero
IntRoundsUp(num, den) ==
    IF num >= 0 THEN (num + den - 1) \div den ELSE 0 - (((0 - num) + den - 1) \div den)

\* int(x) of Python for x = num / den, den > 0: the fraction is cut off,
\* towards zero.  budget * 0.6 is taken as the exact product; for the
\* budgets of the model the float product has the same integer part.
IntOf(num, den) ==
    IF num >= 0 THEN num \div den ELSE 0 - ((0 - num) \div den)

\* an allocation that weighs the shares by the number of keywords of the tier
BudgetAllocationBySize(budget, sizes) ==
    LET total == sizes.high + sizes.medium + sizes.low
        part(n) == IF total = 0 THEN 0 ELSE IntOf(budget * n, total)
    IN  [daily_budget |-> budget,
         high_priority_percent |-> high_priority_percent,
         medium_priority_percent |-> medium_priority_percent,
         low_priority_percent |-> low_priority_percent,
         high_priority_budget |-> part(sizes.high),
         medium_priority_budget |-> part(sizes.medium),
         low_priority_budget |-> part(sizes.low),
         status |-> "allocated"]

\* budget_allocation = {...}: int(budget_daily * 0.6), * 0.3, * 0.1; the
\* function has no check of the budget and total_keywords is not used.
BudgetAllocation(budget, sizes) ==
    [daily_budget |-> budget,
     high_priority_percent |-> high_priority_percent,
     medium_priority_percent |-> medium_priority_percent,
     low_priority_percent |-> low_priority_percent,
     high_priority_budget |-> IntOf(budget * 6, 10),
     medium_priority_budget |-> IntOf(budget * 3, 10),
     low_priority_budget |-> IntOf(budget * 1, 10),
     status |-> "allocated"]

InitAlloc ==
    /\ budget_daily \in BudgetValues
    /\ tier_sizes \in TierSizes
    /\ budget_allocation = NoAllocation
    /\ alloc_pc = "start"
    /\ ProvIdle
    /\ PlanIdle
    /\ RebidIdle
    /\ CoreIdle
    /\ AutoIdle

\* budget_allocation, expected_performance = await _calculate_budget_and_forecast(...)
CalculateBudget ==
    /\ alloc_pc = "start"
    /\ budget_allocation' = BudgetAllocation(budget_daily, tier_sizes)
    /\ alloc_pc' = "done"
    /\ UNCHANGED <<budget_daily, tier_sizes>>
    /\ UNCHANGED notAlloc

NextAlloc == CalculateBudget

SpecAlloc == InitAlloc /\ [][NextAlloc]_vars

----------------------------------------------------------------------------
\* Bids: YandexDirectAPIClient.optimize_keyword_bids and update_bids.

\* Bounds of the bid lists.
MaxBids == 2          \* keywords in one list
MaxBid == 3           \* current bids 0..MaxBid, and the 50 of a fallback suggestion
MaxPosition == 8      \* target positions 1..MaxPosition
MaxUpdates == 2       \* update_bids calls of the caller

\* The factors of the rule in tenths: * 1.2, unchanged, * 0.9.
raise_tenths == 12
keep_tenths == 10
lower_tenths == 9

Keywords == {"kw1", "kw2"}

BidValues == (0..MaxBid) \cup {50}

BidLists ==
    UNION {[1..n -> [keyword : Keywords, bid : BidValues]] : n \in 0..MaxBids}

\* a rule that raises the bid only below position 3
NewBidBelowThree(current_bid, position) ==
    IF position < 3 THEN current_bid * raise_tenths
    ELSE IF position <= 6 THEN current_bid * keep_tenths
    ELSE current_bid * lower_tenths

\* new_bid, in tenths of the unit of current_bid: the products with 1.2 and
\* 0.9 are taken exactly, where the code has the nearest float.
NewBid(current_bid, position) ==
    IF position <= 3 THEN current_bid * raise_tenths
    ELSE IF position <= 6 THEN current_bid * keep_tenths
    ELSE current_bid * lower_tenths

\* ((new_bid - current_bid) / current_bid) * 100, for current_bid # 0
ChangePercent(current_bid, new_bid) ==
    ((new_bid - current_bid * 10) * 100) \div (current_bid * 10)

OptimizedEntry(keyword_data, position) ==
    [keyword |-> keyword_data.keyword,
     old_bid |-> keyword_data.bid,
     new_bid |-> NewBid(keyword_data.bid, position),
     change_percent |-> ChangePercent(keyword_data.bid,
                                      NewBid(keyword_data.bid, position))]

\* the division by current_bid raises ZeroDivisionError for a bid of 0
DividesByZero(bids) == \E k \in 1..Len(bids) : bids[k].bid = 0

\* an optimisation that also sends the new bids
RequestsWithUpdate(reqs, bids, position) ==
    Append(reqs, [service |-> "keywords", method |-> "update",
                  bids |-> [k \in 1..Len(bids) |->
                               IntOf(NewBid(bids[k].bid, position) * 1000000, 10)],
                  raised |-> FALSE])

\* the requests after optimize_keyword_bids: it calls nothing of the client
RequestsAfterOptimize(reqs, bids, position) == reqs

InitRebid ==
    /\ keyword_bids \in BidLists
    /\ target_position \in 1..MaxPosition
    /\ optimized_bids = <<>>
    /\ rebid_pc = "start"
    /\ client \in Clients
    /\ requests = <<>>
    /\ ProvIdle
    /\ AllocIdle
    /\ PlanIdle
    /\ CoreIdle
    /\ AutoIdle

\* optimize_keyword_bids(keyword_bids, target_position): the list is only
\* read (keyword_data.get) and the result is a new list.
OptimizeKeywordBids ==
    /\ rebid_pc = "start"
    /\ IF DividesByZero(keyword_bids)
       THEN /\ rebid_pc' = "raised"
            /\ optimized_bids' = <<>>
       ELSE /\ rebid_pc' = "optimized"
            /\ optimized_bids' =
                   [k \in 1..Len(keyword_bids) |->
                       OptimizedEntry(keyword_bids[k], target_position)]
    /\ requests' = RequestsAfterOptimize(requests, keyword_bids, target_position)
    /\ UNCHANGED <<keyword_bids, target_position, client>>
    /\ UNCHANGED notRebid

\* update_bids(keyword_ids, new_bids), called by the caller with the new bids
\* of the optimisation: one keywords.update request with the bids in
\* microunits, int(bid * 1000000); an error of the request is raised again.
UpdateBids(accepted) ==
    /\ rebid_pc = "optimized"
    /\ Len(requests) < MaxUpdates
    /\ requests' =
           Append(requests,
                  [service |-> "keywords", method |-> "update",
                   bids |-> [k \in 1..Len(optimized_bids) |->
                                IntOf(optimized_bids[k].new_bid * 1000000, 10)],
                   raised |-> ~accepted])
    /\ UNCHANGED <<keyword_bids, target_position, optimized_bids, rebid_pc, client>>
    /\ UNCHANGED notRebid

NextRebid ==
    \/ OptimizeKeywordBids
    \/ \E accepted \in BOOLEAN : UpdateBids(accepted)

SpecRebid == InitRebid /\ [][NextRebid]_vars

----------------------------------------------------------------------------
\* The semantic core: ProfessionalCampaignManager._create_semantic_core_with_yandex.

\* Bounds of the keyword lists.
MaxTier == 1          \* keywords in one tier of the keyword answer
MaxNegative == 1      \* negative keywords of the keyword answer
MaxSuggestions == 1   \* suggestions of the platform

\* keyword texts: two spellings of one keyword, and another keyword
Texts == {"buy", "Buy ", "rent"}

ListsUpTo(n) == UNION {[1..m -> Texts] : m \in 0..n}

AIKeys == {"high_priority", "medium_priority", "low_priority", "negative_keywords"}

\* the dicts a keyword answer can hold: all four lists, the three tiers
\* without negative_keywords, or nothing
ParsedDicts ==
    [keys : {AIKeys}, high_priority : ListsUpTo(MaxTier),
     medium_priority : ListsUpTo(MaxTier), low_priority : ListsUpTo(MaxTier),
     negative_keywords : ListsUpTo(MaxNegative)]
    \cup
    [keys : {AIKeys \ {"negative_keywords"}}, high_priority : ListsUpTo(MaxTier),
     medium_priority : ListsUpTo(MaxTier), low_priority : ListsUpTo(MaxTier),
     negative_keywords : {<<>>}]
    \cup
    {NoKeywords}

\* the keyword request: it fails, or it answers with text without JSON, or
\* with the JSON of a dict
AIAnswers ==
    {[kind |-> "exception", dict |-> NoKeywords],
     [kind |-> "text", dict |-> NoKeywords]}
    \cup
    [kind : {"json"}, dict : ParsedDicts]

\* _safe_json_parse: the dict of the JSON in the text, {} without one
SafeJsonParse(answer) ==
    IF answer.kind = "json" THEN answer.dict ELSE NoKeywords

\* a keyword generation that has no lists to give after a failed request
GenerateAIKeywordsNoFallback(answer) == SafeJsonParse(answer)

\* _generate_ai_keywords: the parsed answer as it is; four empty lists when
\* the request fails
GenerateAIKeywords(answer) ==
    IF answer.kind = "exception"
    THEN [NoKeywords EXCEPT !.keys = AIKeys]
    ELSE SafeJsonParse(answer)

\* _get_yandex_keyword_suggestions: each suggestion of the client in the
\* format of the plan, marked with its source
FormatSuggestions(suggs) ==
    [k \in 1..Len(suggs) |-> [keyword |-> suggs[k], source |-> "yandex_api"]]

TrimLower(text) == IF text = "Buy " THEN "buy" ELSE text

Without(list, banned) ==
    SelectSeq(list, LAMBDA t : \A k \in 1..Len(banned) : TrimLower(banned[k]) # TrimLower(t))

\* an assembly that drops from the tiers what the negative list names
SemanticCoreFiltered(ai_keywords, yandex_suggestions) ==
    IF AIKeys \subseteq ai_keywords.keys
    THEN [status |-> "returned",
          high_priority |-> Without(ai_keywords.high_priority, ai_keywords.negative_keywords),
          medium_priority |-> Without(ai_keywords.medium_priority, ai_keywords.negative_keywords),
          low_priority |-> Without(ai_keywords.low_priority, ai_keywords.negative_keywords),
          negative_keywords |-> ai_keywords.negative_keywords,
          yandex_suggestions |-> yandex_suggestions]
    ELSE [NoCore EXCEPT !.status = "KeyError"]

\* an assembly that keeps a keyword in the first tier that has it
SemanticCoreDeduplicated(ai_keywords, yandex_suggestions) ==
    IF AIKeys \subseteq ai_keywords.keys
    THEN [status |-> "returned",
          high_priority |-> ai_keywords.high_priority,
          medium_priority |-> Without(ai_keywords.medium_priority, ai_keywords.high_priority),
          low_priority |-> Without(ai_keywords.low_priority,
                                   ai_keywords.high_priority \o ai_keywords.medium_priority),
          negative_keywords |-> ai_keywords.negative_keywords,
          yandex_suggestions |-> yandex_suggestions]
    ELSE [NoCore EXCEPT !.status = "KeyError"]

\* SemanticCore(high_priority=ai_keywords["high_priority"], ...): the four
\* lists of the keyword dict and the suggestions, each as it came; a dict
\* without one of the keys raises KeyError.
SemanticCoreOf(ai_keywords, yandex_suggestions) ==
    IF AIKeys \subseteq ai_keywords.keys
    THEN [status |-> "returned",
          high_priority |-> ai_keywords.high_priority,
          medium_priority |-> ai_keywords.medium_priority,
          low_priority |-> ai_keywords.low_priority,
          negative_keywords |-> ai_keywords.negative_keywords,
          yandex_suggestions |-> yandex_suggestions]
    ELSE [NoCore EXCEPT !.status = "KeyError"]

InitCore ==
    /\ ai_answer \in AIAnswers
    /\ suggestions \in ListsUpTo(MaxSuggestions)
    /\ semantic_core = NoCore
    /\ core_pc = "start"
    /\ ProvIdle
    /\ AllocIdle
    /\ PlanIdle
    /\ RebidIdle
    /\ AutoIdle

\* semantic_core = await self._create_semantic_core_with_yandex(analysis, budget)
CreateCore ==
    /\ core_pc = "start"
    /\ semantic_core' = SemanticCoreOf(GenerateAIKeywords(ai_answer),
                                       FormatSuggestions(suggestions))
    /\ core_pc' = "done"
    /\ UNCHANGED <<ai_answer, suggestions>>
    /\ UNCHANGED notCore

NextCore == CreateCore

SpecCore == InitCore /\ [][NextCore]_vars

----------------------------------------------------------------------------
\* The planning run: ProfessionalCampaignManager.create_campaign_interactive.

\* Bounds of the planning run.
MaxTries == 2         \* budget inputs the prompt turns down before one is taken
MaxEntry == 1         \* budget inputs -MaxEntry..MaxEntry, and text that is no number
MaxSeeds == 6         \* keywords of the analysis, the seeds of the suggestions

\* The seeds a fallback list is made of: base_keywords[:5].
fallback_seeds == 5

\* what int(input(...)) makes of a line: a number, or ValueError
BudgetInputs ==
    {[numeric |-> FALSE, value |-> 0]} \cup
    [numeric : {TRUE}, value : (0 - MaxEntry)..MaxEntry]

\* a prompt that takes a budget of zero
BudgetAcceptedFromZero(inp) == inp.numeric /\ inp.value >= 0

\* try: budget_daily = int(input(...)); if budget_daily > 0: break
BudgetAccepted(inp) == inp.numeric /\ inp.value > 0

\* the answers to the first prompts: a site, a description, or neither
BusinessInputs ==
    {[website |-> TRUE,  description |-> "",     budget_daily |-> 0],
     [website |-> FALSE, description |-> "text", budget_daily |-> 0],
     [website |-> FALSE, description |-> "",     budget_daily |-> 0]}

\* how a request to the model ends: an answer with JSON, an answer without,
\* or an exception
ReplyKinds == {"json", "text", "exception"}

SeedNames == <<"seed1", "seed2", "seed3", "seed4", "seed5", "seed6", "seed7">>

\* the keywords of an analysis answer
SeedLists == {SubSeq(SeedNames, 1, n) : n \in 0..MaxSeeds}

\* LandingAnalysis(...) from result.get(key, default): the keywords of the
\* answer, [] for an answer without JSON
AnalysisOf(kind, keywords) ==
    IF kind = "json" THEN [status |-> "parsed", keywords |-> keywords]
    ELSE [status |-> "defaults", keywords |-> <<>>]

\* the keyword answers of a planning run: no lists, or one keyword in the
\* top tier
PlanKeywordAnswers ==
    {a \in AIAnswers :
        /\ Len(a.dict.high_priority) = 0 \/ a.dict.high_priority = <<"buy">>
        /\ a.dict.medium_priority = <<>>
        /\ a.dict.low_priority = <<>>
        /\ a.dict.negative_keywords = <<>>}

\* how the platform answers keywordsresearch.get
SuggestionResponses ==
    {[status |-> "ok", keywords |-> <<>>],
     [status |-> "ok", keywords |-> <<"rent">>],
     [status |-> "error", keywords |-> <<>>],
     [status |-> "unavailable", keywords |-> <<>>]}

\* YandexDirectAPIClient.get_keyword_suggestions: the keywords of the
\* response; except Exception: return [] for a request that fails
get_keyword_suggestions(base_keywords, response) ==
    [raised |-> FALSE,
     suggestions |-> IF response.status = "ok" THEN response.keywords ELSE <<>>]

\* for keyword in base_keywords[:5]: ... "source": "fallback"
FallbackSuggestions(base_keywords) ==
    [k \in 1..(IF Len(base_keywords) < fallback_seeds
               THEN Len(base_keywords) ELSE fallback_seeds) |->
        [keyword |-> base_keywords[k], source |-> "fallback"]]

\* _get_yandex_keyword_suggestions: the suggestions of the client in the
\* format of the plan; the fallback list when the call of the client raises
GetYandexKeywordSuggestions(base_keywords, response) ==
    LET result == get_keyword_suggestions(base_keywords, response)
    IN  IF result.raised
        THEN FallbackSuggestions(base_keywords)
        ELSE FormatSuggestions(result.suggestions)

\* AdCreatives(ads=result.get("ads", []), ...); empty creatives on an exception
CreativesOf(kind) == IF kind = "json" THEN "parsed" ELSE "empty"

\* a plan_dict that leaves the semantic core out
PlanDictWithoutCore(info, p) ==
    [written |-> TRUE, business_info |-> info, plan |-> [p EXCEPT !.core = NoCore]]

\* plan_dict = {...}; json.dump(plan_dict, f)
PlanDict(info, p) ==
    [written |-> TRUE, business_info |-> info, plan |-> p]

InitPlan ==
    /\ plan_pc = "collect"
    /\ business_info \in BusinessInputs
    /\ entered = <<>>
    /\ effects = <<>>
    /\ plan = NoPlan
    /\ replies = NoReplies
    /\ plan_file = NoFile
    /\ ProvIdle
    /\ AllocIdle
    /\ RebidIdle
    /\ CoreIdle
    /\ AutoIdle

\* _collect_business_info, one answer to the budget prompt: a number above 0
\* ends the loop and the step, anything else is answered with a message and
\* the prompt again.
EnterBudget(inp) ==
    /\ plan_pc = "collect"
    /\ IF BudgetAccepted(inp)
       THEN /\ business_info' = [business_info EXCEPT !.budget_daily = inp.value]
            /\ plan_pc' = "analyze"
            /\ UNCHANGED entered
       ELSE /\ Len(entered) < MaxTries
            /\ entered' = Append(entered, inp)
            /\ UNCHANGED <<business_info, plan_pc>>
    /\ UNCHANGED <<effects, plan, replies, plan_file>>
    /\ UNCHANGED notPlan

\* _analyze_business_deep: the description, if any, goes through the model
\* (a failure keeps the old text), the site, if any, is fetched (a failure
\* gives ""), then the analysis request; its exception is raised again, an
\* answer that does not parse gives the default analysis.
AnalyzeBusiness(enhanced, kind, keywords) ==
    /\ plan_pc = "analyze"
    /\ effects' = effects
                  \o (IF business_info.description # "" THEN <<"openai_enhance">> ELSE <<>>)
                  \o (IF business_info.website THEN <<"http_get">> ELSE <<>>)
                  \o <<"openai_analysis">>
    /\ business_info' =
           IF business_info.description # "" /\ enhanced
           THEN [business_info EXCEPT !.description = "enhanced"]
           ELSE business_info
    /\ replies' = [replies EXCEPT !.analysis = kind]
    /\ IF kind = "exception"
       THEN /\ plan_pc' = "raised"
            /\ UNCHANGED plan
       ELSE /\ plan_pc' = "core"
            /\ plan' = [plan EXCEPT !.analysis = AnalysisOf(kind, keywords)]
    /\ UNCHANGED <<entered, plan_file>>
    /\ UNCHANGED notPlan

\* _create_semantic_core_with_yandex: the keyword request, then the
\* suggestion request, then SemanticCore(...) from the four keys of the
\* keyword answer.  A failed request gives four empty lists; an answer
\* without one of the keys ends the step with KeyError.
CreateSemanticCore(answer, response) ==
    LET core == SemanticCoreOf(GenerateAIKeywords(answer),
                               GetYandexKeywordSuggestions(plan.analysis.keywords,
                                                           response))
    IN  /\ plan_pc = "core"
        /\ effects' = effects \o <<"openai_keywords", "yandex_suggestions">>
        /\ replies' = [replies EXCEPT !.keywords = answer.kind,
                                      !.suggestions = response.status]
        /\ IF core.status = "returned"
           THEN /\ plan_pc' = "creatives"
                /\ plan' = [plan EXCEPT !.core = core]
           ELSE /\ plan_pc' = "raised"
                /\ UNCHANGED plan
        /\ UNCHANGED <<business_info, entered, plan_file>>
        /\ UNCHANGED notPlan

\* _generate_professional_creatives: one request; any failure gives empty
\* creatives.
GenerateCreatives(kind) ==
    /\ plan_pc = "creatives"
    /\ effects' = Append(effects, "openai_creatives")
    /\ replies' = [replies EXCEPT !.creatives = kind]
    /\ plan' = [plan EXCEPT !.creatives = CreativesOf(kind)]
    /\ plan_pc' = "budget"
    /\ UNCHANGED <<business_info, entered, plan_file>>
    /\ UNCHANGED notPlan

\* _calculate_budget_and_forecast, as step 5 of the run
PlanBudget ==
    /\ plan_pc = "budget"
    /\ plan' = [plan EXCEPT !.budget_allocation =
                    BudgetAllocation(business_info.budget_daily,
                                     [high |-> Len(plan.core.high_priority),
                                      medium |-> Len(plan.core.medium_priority),
                                      low |-> Len(plan.core.low_priority)])]
    /\ plan_pc' = "save"
    /\ UNCHANGED <<business_info, entered, effects, replies, plan_file>>
    /\ UNCHANGED notPlan

\* _save_campaign_plan: the plan goes to a new file campaign_plan_<time>.json;
\* when the file cannot be opened the error leaves the run.
SavePlan(opened) ==
    /\ plan_pc = "save"
    /\ IF opened
       THEN /\ effects' = Append(effects, "file_write")
            /\ plan_file' = PlanDict(business_info, plan)
            /\ plan_pc' = "returned"
       ELSE /\ plan_pc' = "raised"
            /\ UNCHANGED <<effects, plan_file>>
    /\ UNCHANGED <<business_info, entered, plan, replies>>
    /\ UNCHANGED notPlan

NextPlan ==
    \/ \E inp \in BudgetInputs : EnterBudget(inp)
    \/ \E enhanced \in BOOLEAN, kind \in ReplyKinds, keywords \in SeedLists :
          AnalyzeBusiness(enhanced, kind, keywords)
    \/ \E answer \in PlanKeywordAnswers, response \in SuggestionResponses :
          CreateSemanticCore(answer, response)
    \/ \E kind \in ReplyKinds : GenerateCreatives(kind)
    \/ PlanBudget
    \/ \E opened \in BOOLEAN : SavePlan(opened)

SpecPlan == InitPlan /\ [][NextPlan]_vars

----------------------------------------------------------------------------
\* The launch: ProfessionalCampaignManager.create_campaign_automatically.

\* Bounds of the plans that are launched.
MaxCost == 2          \* cost_per_conversion 0..MaxCost

\* campaign_id = 12345, the placeholder of the launch
placeholder_campaign_id == 12345

\* the forecast of a plan: with or without the key cost_per_conversion
Forecasts ==
    [keys : {{"cost_per_conversion"}}, cost_per_conversion : 0..MaxCost]
    \cup {[keys |-> {}, cost_per_conversion |-> 0]}

CampaignPlans ==
    [title : {"undefined", "shop"}, budget_daily : 1..MaxBudget,
     expected_performance : Forecasts]

\* campaign_data = {...}: the name, the budget and the AverageCpa,
\* campaign_plan.expected_performance["cost_per_conversion"]
CampaignData(p) ==
    IF "cost_per_conversion" \in p.expected_performance.keys
    THEN [raised |-> FALSE, name |-> p.title, amount |-> p.budget_daily,
          average_cpa |-> p.expected_performance.cost_per_conversion]
    ELSE [raised |-> TRUE, name |-> p.title, amount |-> p.budget_daily,
          average_cpa |-> 0]

\* a launch that sends campaign_data to the platform
RequestsWithCampaign(reqs, data) ==
    Append(reqs, [service |-> "campaigns", method |-> "add", data |-> data])

\* the requests after the launch: the call of yandex_client.create_campaign
\* is a comment
RequestsAfterLaunch(reqs, data) == reqs

\* CampaignResult(campaign_id=campaign_id, adgroup_ids=[], ..., status="CREATED")
CampaignResultOf(data) ==
    IF data.raised
    THEN [NoCampaignResult EXCEPT !.status = "KeyError"]
    ELSE [status |-> "CREATED", campaign_id |-> placeholder_campaign_id,
          adgroup_ids |-> <<>>, keyword_ids |-> <<>>, ad_ids |-> <<>>]

InitAuto ==
    /\ campaign_plan \in CampaignPlans
    /\ campaign_result = NoCampaignResult
    /\ auto_pc = "start"
    /\ platform_requests = <<>>
    /\ ProvIdle
    /\ AllocIdle
    /\ PlanIdle
    /\ RebidIdle
    /\ CoreIdle

\* campaign_result = await manager.create_campaign_automatically(campaign_plan)
CreateCampaignAutomatically ==
    /\ auto_pc = "start"
    /\ LET data == CampaignData(campaign_plan)
       IN  /\ campaign_result' = CampaignResultOf(data)
           /\ platform_requests' =
                  IF data.raised THEN platform_requests
                  ELSE RequestsAfterLaunch(platform_requests, data)
    /\ auto_pc' = "done"
    /\ UNCHANGED campaign_plan
    /\ UNCHANGED notAuto

NextAuto == CreateCampaignAutomatically

SpecAuto == InitAuto /\ [][NextAuto]_vars

----------------------------------------------------------------------------
\* Vocabulary of the properties.

\* the platform did not create every item of the call (or did not answer)
Failed(c) == c.kind # "result" \/ \E j \in 1..Len(c.items) : c.items[j] = 0

Rejected(c) == c.kind = "result" /\ \E j \in 1..Len(c.items) : c.items[j] = 0

CallsOf(service) == {k \in 1..Len(calls) : calls[k].service = service}

CallsFor(service, g) == {k \in CallsOf(service) : calls[k].index = g}

\* resources the platform created during the current run
CreatedThisRun == {r \in remote : r.id >= run_base}

KindOf(service) ==
    CASE service = "campaigns" -> "campaign"
      [] service = "adgroups" -> "adgroup"
      [] service = "keywords" -> "keyword"
      [] OTHER -> "ad"

StageRank(service) ==
    CASE service = "campaigns" -> 1
      [] service = "adgroups" -> 2
      [] service = "keywords" -> 3
      [] OTHER -> 4

\* the ad-group batch in which the platform rejected one group and created another
MixedGroupCalls ==
    {k \in CallsOf("adgroups") :
        /\ calls[k].kind = "result"
        /\ \E a, b \in 1..calls[k].n : calls[k].items[a] = 0 /\ calls[k].items[b] > 0}

\* a keyword or ad call that failed
FailedBranchCalls ==
    {k \in CallsOf("keywords") \cup CallsOf("ads") : Failed(calls[k])}

----------------------------------------------------------------------------
\* C1: when the campaign create fails, the run ends with an exception, no
\* ad-group, keyword or ad request is issued and nothing beyond the campaign
\* request is recorded for the run.
C1_RootFailureStopsRun ==
    (Len(calls) >= 1 /\ Failed(calls[1])) =>
        /\ calls[1].service = "campaigns"
        /\ pc = "raised"
        /\ Len(calls) = 1
        /\ campaign_id = 0
        /\ group_ids = <<>>
        /\ summary = NoResult
        /\ CreatedThisRun = {}

C1_Witness ==
    /\ pc = "raised"
    /\ Len(calls) = 1
    /\ Failed(calls[1])
    /\ Len(groups_config) = 2
    /\ groups_config[1].keywords > 0

\* C2 as stated: with group A rejected and group B created in the same
\* batch, the run ends with a result (partially failed) and B's keyword and
\* ad requests were issued.
C2_Original ==
    (Terminal /\ MixedGroupCalls # {}) =>
        /\ pc = "returned"
        /\ summary # NoResult
        /\ \A k \in MixedGroupCalls : \A b \in 1..calls[k].n :
             (calls[k].items[b] > 0 /\ groups_config[b].keywords > 0) =>
                 \E m \in CallsOf("keywords") : calls[m].parent = calls[k].items[b]

\* C2 amended: with group A rejected and group B created in the same batch,
\* create_ad_groups raises and the run ends with the exception at once: no
\* result is returned, B's ID is not kept, no keyword or ad request is
\* issued, and B stays on the platform without keywords and ads.
C2_GroupRejectionAbortsRun ==
    \A k \in MixedGroupCalls :
        /\ calls[k].raised
        /\ pc = "raised"
        /\ k = Len(calls)
        /\ summary = NoResult
        /\ group_ids = <<>>
        /\ CallsOf("keywords") = {} /\ CallsOf("ads") = {}
        /\ \A b \in 1..calls[k].n : calls[k].items[b] > 0 =>
             /\ \E r \in remote : r.kind = "adgroup" /\ r.id = calls[k].items[b]
             /\ ~\E r \in remote : r.parent = calls[k].items[b]

C2_Witness ==
    /\ pc = "raised"
    /\ \E k \in MixedGroupCalls :
         calls[k].items[1] = 0 /\ calls[k].items[2] > 0
         /\ groups_config[2].keywords > 0 /\ groups_config[2].ads > 0

\* C3 as stated: after a failed keyword or ad call of one group, every other
\* created group with keywords (ads) configured still gets its keyword (ad)
\* request in the run.
C3_Original ==
    (Terminal /\ FailedBranchCalls # {}) =>
        \A k \in FailedBranchCalls : \A g \in 1..Len(group_ids) :
            g # calls[k].index =>
                /\ groups_config[g].keywords > 0 => CallsFor("keywords", g) # {}
                /\ groups_config[g].ads > 0 => CallsFor("ads", g) # {}

\* C3 amended: a failed keyword or ad call of one group ends the run with the
\* exception: it is the last request of the run, so the groups after it get
\* no request of that stage, and after a failed keyword call no group gets
\* an ad request.
C3_BranchFailureAbortsRun ==
    \A k \in FailedBranchCalls :
        /\ pc = "raised"
        /\ k = Len(calls)
        /\ \A g \in 1..Len(group_ids) :
             g > calls[k].index => CallsFor(calls[k].service, g) = {}
        /\ calls[k].service = "keywords" => CallsOf("ads") = {}

C3_Witness ==
    /\ pc = "raised"
    /\ Len(group_ids) = 2
    /\ groups_config[2].keywords > 0
    /\ groups_config[2].ads > 0
    /\ \E k \in FailedBranchCalls :
         calls[k].service = "keywords" /\ calls[k].index = 1

\* C4 as stated: the run raises only when the campaign could not be created;
\* whenever the campaign was created the run returns a result.
C4_Original ==
    Terminal => (pc = "raised" <=> Failed(calls[1]))

\* C4 amended: the run raises whenever any create call of it fails, at the
\* campaign stage or at a later one; it returns a result exactly when every
\* create call of the run succeeded.
C4_RaisesOnAnyFailure ==
    /\ Terminal => (pc = "returned" <=> \A k \in 1..Len(calls) : ~Failed(calls[k]))
    /\ pc = "raised" => (Len(calls) >= 1 /\ Failed(calls[Len(calls)]))

C4_Witness ==
    /\ pc = "raised"
    /\ campaign_id # 0
    /\ Len(group_ids) = 2
    /\ calls[Len(calls)].service = "ads"
    /\ calls[Len(calls)].kind = "transport"

\* every ad-group request follows a campaign call that returned its parent,
\* every keyword and ad request follows the ad-group call that returned its
\* parent at the request's own position, and the stages never go backwards
StageOrder ==
    \A k \in 1..Len(calls) :
        /\ calls[k].service = "campaigns" => k = 1
        /\ calls[k].service = "adgroups" =>
             \E j \in 1..(k - 1) :
                 /\ calls[j].service = "campaigns"
                 /\ ~Failed(calls[j])
                 /\ calls[k].parent = calls[j].items[1]
        /\ calls[k].service \in {"keywords", "ads"} =>
             \E j \in 1..(k - 1) :
                 /\ calls[j].service = "adgroups"
                 /\ ~Failed(calls[j])
                 /\ calls[k].index \in 1..Len(calls[j].items)
                 /\ calls[k].parent = calls[j].items[calls[k].index]
        /\ \A j \in 1..(k - 1) : StageRank(calls[j].service) <= StageRank(calls[k].service)

\* C5 as stated: the stages are ordered campaign, ad groups, keywords, ads,
\* each request following the successful create of its parent, and the run
\* fails only from the initial state, where the campaign was not created.
C5_Original ==
    /\ StageOrder
    /\ pc = "raised" => (campaign_id = 0 /\ CallsOf("adgroups") = {})

\* C5 amended: the stages are ordered campaign, ad groups, keywords, ads: no
\* ad-group request is issued before the campaign create returned an ID and
\* no keyword or ad request of a group before that group's create returned
\* its ID; the run fails with the exception at whichever stage a call fails.
C5_StagesInOrder ==
    /\ StageOrder
    /\ pc = "groups" => campaign_id # 0
    /\ pc \in {"keywords", "ads", "returned"} =>
         (CallsOf("campaigns") # {} /\ CallsOf("adgroups") # {})
    /\ pc = "raised" => Failed(calls[Len(calls)])

C5_Witness ==
    /\ pc = "raised"
    /\ calls[Len(calls)].service = "ads"
    /\ calls[Len(calls)].index = 2
    /\ CallsFor("keywords", 2) # {}

\* IDs a returned summary names
SummaryIds(s) == IF s.campaign_id # 0 THEN {s.campaign_id} ELSE {}

\* C6 as stated: whether the run succeeded or failed, its final result names
\* every remote ID created during the run.
C6_Original ==
    Terminal =>
        /\ summary # NoResult
        /\ SummaryIds(summary) = {r.id : r \in CreatedThisRun}

\* C6 amended: a run that succeeds returns the campaign ID, the number of ad
\* groups created and the status created_in_draft, without the IDs of the ad
\* groups, keywords and ads; a run that fails returns no result at all.
C6_SummaryOfSuccess ==
    /\ pc = "returned" =>
         /\ summary.status = "created_in_draft"
         /\ summary.campaign_id # 0
         /\ \E r \in CreatedThisRun : r.kind = "campaign" /\ r.id = summary.campaign_id
         /\ summary.groups_count =
              Cardinality({r \in CreatedThisRun :
                  r.kind = "adgroup" /\ r.parent = summary.campaign_id})
         /\ summary.groups_count = Len(groups_config)
    /\ pc # "returned" => summary = NoResult

C6_Witness ==
    /\ pc = "returned"
    /\ summary.groups_count = 2
    /\ \E r \in CreatedThisRun : r.kind = "keyword"
    /\ \E r \in CreatedThisRun : r.kind = "ad"

\* C7 as stated: whenever the platform answers a batch, the call returns one
\* result per submitted item (a created ID or an error).
C7_Original ==
    \A k \in 1..Len(calls) :
        calls[k].kind = "result" =>
            (~calls[k].raised /\ Len(calls[k].ids) = calls[k].n)

\* C7 amended: given one response item per submitted item, a batch create
\* that returns yields exactly one created ID per submitted item, in input
\* order, the i-th ID being the resource created for the i-th input; errors
\* are never part of a returned list, a rejected item makes the call raise.
C7_IdsMatchInputsInOrder ==
    \A k \in 1..Len(calls) :
        ~calls[k].raised =>
            /\ Len(calls[k].ids) = calls[k].n
            /\ \A j \in 1..calls[k].n :
                 /\ calls[k].ids[j] > 0
                 /\ [kind |-> KindOf(calls[k].service), id |-> calls[k].ids[j],
                     parent |-> calls[k].parent, item |-> j] \in remote

C7_Witness ==
    \E k \in 1..Len(calls) :
        ~calls[k].raised /\ calls[k].n = 2 /\ calls[k].service = "keywords"

\* C8 as stated: a transport failure fails the call, a platform rejection of
\* items does not.
C8_Original ==
    \A k \in 1..Len(calls) :
        /\ calls[k].kind # "result" => calls[k].raised
        /\ Rejected(calls[k]) => ~calls[k].raised

\* C8 amended: a transport failure and a platform rejection of any item both
\* make the call raise; the call returns only when every item was created,
\* and a raising call hands no result list (IDs or errors) to its caller.
C8_BothFailureKindsRaise ==
    \A k \in 1..Len(calls) :
        /\ calls[k].raised <=> (calls[k].kind # "result" \/ Rejected(calls[k]))
        /\ calls[k].raised => calls[k].ids = <<>>

C8_Witness ==
    \E k \in 1..Len(calls) :
        /\ calls[k].raised
        /\ calls[k].service = "ads"
        /\ Len(calls[k].items) = 2
        /\ calls[k].items[1] > 0
        /\ calls[k].items[2] = 0

\* C9 as stated: in a finished run the campaign create and the ad-group
\* batch create were each requested exactly once and the keyword and ad
\* creates at most once per created group.
C9_Original ==
    Terminal =>
        /\ Cardinality(CallsOf("campaigns")) = 1
        /\ Cardinality(CallsOf("adgroups")) = 1
        /\ \A g \in 1..Len(group_ids) :
             /\ Cardinality(CallsFor("keywords", g)) <= 1
             /\ Cardinality(CallsFor("ads", g)) <= 1

\* C9 amended: in a run the campaign create is requested exactly once, the
\* ad-group batch create exactly once if the campaign was created and not at
\* all otherwise, and the keyword and ad creates at most once per created
\* group; no request follows a failed one, so nothing is retried.
C9_AtMostOncePerStage ==
    /\ Cardinality(CallsOf("campaigns")) <= 1
    /\ Cardinality(CallsOf("adgroups")) <= 1
    /\ \A g \in 1..MaxGroups + 1 :
         /\ Cardinality(CallsFor("keywords", g)) <= 1
         /\ Cardinality(CallsFor("ads", g)) <= 1
    /\ \A k \in 1..(Len(calls) - 1) : ~Failed(calls[k])
    /\ Terminal =>
         /\ Cardinality(CallsOf("campaigns")) = 1
         /\ Cardinality(CallsOf("adgroups")) = (IF campaign_id # 0 THEN 1 ELSE 0)
         /\ pc = "returned" =>
              \A g \in 1..Len(group_ids) :
                  /\ Cardinality(CallsFor("keywords", g)) =
                       (IF groups_config[g].keywords > 0 THEN 1 ELSE 0)
                  /\ Cardinality(CallsFor("ads", g)) =
                       (IF groups_config[g].ads > 0 THEN 1 ELSE 0)

C9_Witness ==
    /\ pc = "raised"
    /\ Len(group_ids) = 2
    /\ Cardinality(CallsOf("keywords")) = 2
    /\ Failed(calls[Len(calls)])
    /\ calls[Len(calls)].service = "keywords"

\* the requests a run issues for the plan when nothing fails
Indices(n) == [g \in 1..n |-> g]

WithKeywords == SelectSeq(Indices(Len(groups_config)), LAMBDA g : groups_config[g].keywords > 0)

WithAds == SelectSeq(Indices(Len(groups_config)), LAMBDA g : groups_config[g].ads > 0)

FullRequests ==
    <<  <<"campaigns", 0, 1>>, <<"adgroups", 0, Len(groups_config)>> >>
    \o [k \in 1..Len(WithKeywords) |->
          <<"keywords", WithKeywords[k], groups_config[WithKeywords[k]].keywords>>]
    \o [k \in 1..Len(WithAds) |->
          <<"ads", WithAds[k], groups_config[WithAds[k]].ads>>]

RequestsOfRun == [k \in 1..Len(calls) |-> <<calls[k].service, calls[k].index, calls[k].n>>]

Campaigns == {r \in remote : r.kind = "campaign"}

\* C10: the orchestrator keeps nothing between runs: every run that succeeds,
\* the first or a later one and whatever the earlier runs' outcomes, issued
\* the full set of create requests of the plan and created a campaign of its
\* own, so two successful runs of one plan leave two campaigns.
C10_NoCrossRunState ==
    /\ pc = "campaign" => (calls = <<>> /\ campaign_id = 0 /\ group_ids = <<>>)
    /\ pc = "returned" =>
         /\ RequestsOfRun = FullRequests
         /\ summary.campaign_id >= run_base
         /\ \A k \in 1..Len(calls) : \A j \in 1..Len(calls[k].ids) :
              calls[k].ids[j] >= run_base
         /\ Cardinality(Campaigns) >=
              1 + Cardinality({k \in 1..Len(outcomes) : outcomes[k] = "returned"})

C10_Witness ==
    /\ run = 2
    /\ pc = "returned"
    /\ outcomes = <<"returned">>
    /\ Cardinality(Campaigns) = 2
    /\ Len(groups_config) = 1
    /\ Cardinality({r \in remote : r.kind = "keyword"}) = 2 * groups_config[1].keywords
    /\ groups_config[1].keywords > 0
    /\ groups_config[1].ads > 0

----------------------------------------------------------------------------
\* Budget allocation.

TierAmounts ==
    <<budget_allocation.high_priority_budget,
      budget_allocation.medium_priority_budget,
      budget_allocation.low_priority_budget>>

\* C11: for every positive daily budget the three tier amounts are each >= 0
\* and their sum is <= the daily budget.
C11_AmountsWithinBudget ==
    (alloc_pc = "done" /\ budget_daily > 0) =>
        /\ budget_allocation.status = "allocated"
        /\ \A t \in 1..3 : TierAmounts[t] >= 0
        /\ TierAmounts[1] + TierAmounts[2] + TierAmounts[3] <= budget_daily

\* a budget whose three floors lose two units
C11_Witness ==
    /\ alloc_pc = "done"
    /\ budget_daily = 19
    /\ TierAmounts[1] + TierAmounts[2] + TierAmounts[3] = 17

\* C12: for a positive budget the amounts are floor(budget * share) with the
\* fixed shares 60%, 30%, 10%, whatever the sizes of the tiers; 3500 gives
\* 2100, 1050 and 350.
C12_FixedShares ==
    (alloc_pc = "done" /\ budget_daily > 0) =>
        /\ budget_allocation.high_priority_percent = 60
        /\ budget_allocation.medium_priority_percent = 30
        /\ budget_allocation.low_priority_percent = 10
        /\ TierAmounts[1] = (budget_daily * 60) \div 100
        /\ TierAmounts[2] = (budget_daily * 30) \div 100
        /\ TierAmounts[3] = (budget_daily * 10) \div 100
        /\ budget_daily = 3500 => TierAmounts = <<2100, 1050, 350>>

C12_Witness ==
    /\ alloc_pc = "done"
    /\ budget_daily = 3500
    /\ tier_sizes = [high |-> 5, medium |-> 3, low |-> 2]
    /\ TierAmounts = <<2100, 1050, 350>>

----------------------------------------------------------------------------
\* Planning run.

NonPositive(inp) == inp.numeric /\ inp.value <= 0

\* C14: a budget that is not above 0 is turned down at the prompt before any
\* side effect: no content-generation, keyword-suggestion or platform request
\* and no plan file write happens while no budget above 0 has been given.
C14_NoEffectBeforeBudget ==
    /\ plan_pc = "collect" => (effects = <<>> /\ plan = NoPlan)
    /\ \A k \in 1..Len(entered) : NonPositive(entered[k]) \/ ~entered[k].numeric
    /\ effects # <<>> => business_info.budget_daily > 0
    /\ plan.budget_allocation # NoAllocation => business_info.budget_daily > 0

\* the prompt has turned down a zero and a negative budget and waits again
C14_Witness ==
    /\ plan_pc = "collect"
    /\ Len(entered) = 2
    /\ NonPositive(entered[1])
    /\ entered[2].numeric /\ entered[2].value < 0
    /\ effects = <<>>

----------------------------------------------------------------------------
\* Bids.

\* the entry follows the rule for the position, with new_bid in tenths
FollowsRule(e, position) ==
    /\ position <= 3 =>
          /\ e.new_bid = e.old_bid * 12
          /\ e.change_percent = 20
    /\ (3 < position /\ position <= 6) =>
          /\ e.new_bid = e.old_bid * 10
          /\ e.change_percent = 0
    /\ position > 6 =>
          /\ e.new_bid = e.old_bid * 9
          /\ e.change_percent = 0 - 10
    /\ e.change_percent * e.old_bid * 10 = (e.new_bid - e.old_bid * 10) * 100

\* C15: the new bid is bid * 1.2 for a target position <= 3, the bid itself
\* for 3 < position <= 6 and bid * 0.9 above 6, and the reported change is
\* (new - old) / old * 100; position 1 and bid 50 give 60 and +20, position 8
\* and bid 50 give 45 and -10.
C15_RebidRule ==
    /\ rebid_pc = "optimized" =>
          /\ Len(optimized_bids) = Len(keyword_bids)
          /\ \A k \in 1..Len(optimized_bids) :
                /\ optimized_bids[k].keyword = keyword_bids[k].keyword
                /\ optimized_bids[k].old_bid = keyword_bids[k].bid
                /\ FollowsRule(optimized_bids[k], target_position)
                /\ (target_position = 1 /\ keyword_bids[k].bid = 50) =>
                      /\ optimized_bids[k].new_bid = 600
                      /\ optimized_bids[k].change_percent = 20
                /\ (target_position = 8 /\ keyword_bids[k].bid = 50) =>
                      /\ optimized_bids[k].new_bid = 450
                      /\ optimized_bids[k].change_percent = 0 - 10
    /\ (rebid_pc \notin {"start", "idle"} /\ ~DividesByZero(keyword_bids)) =>
          rebid_pc = "optimized"

\* position 8 and bids 50 and 3: 45 with -10 and 2.7 with -10
C15_Witness ==
    /\ rebid_pc = "optimized"
    /\ target_position = 8
    /\ Len(optimized_bids) = 2
    /\ optimized_bids[1].old_bid = 50 /\ optimized_bids[1].new_bid = 450
    /\ optimized_bids[2].old_bid = 3 /\ optimized_bids[2].new_bid = 27
    /\ optimized_bids[2].change_percent = 0 - 10

\* C16: optimize_keyword_bids sends no request and changes neither the list
\* it is given nor the client; the new bids reach the platform only through
\* update_bids, a separate call of the caller.
C16_RebidIsPure ==
    [][ /\ (rebid_pc = "start" /\ rebid_pc' # "start") =>
              /\ requests' = requests
              /\ keyword_bids' = keyword_bids
              /\ client' = client
        /\ requests' # requests =>
              /\ rebid_pc = "optimized" /\ rebid_pc' = "optimized"
              /\ optimized_bids' = optimized_bids
              /\ Len(requests') = Len(requests) + 1
              /\ requests'[Len(requests')].method = "update"
      ]_vars

\* bids were raised by the optimisation and nothing has been sent
C16_Witness ==
    /\ rebid_pc = "optimized"
    /\ target_position = 1
    /\ Len(optimized_bids) = 2
    /\ optimized_bids[1].new_bid > optimized_bids[1].old_bid * 10
    /\ keyword_bids[1].bid = optimized_bids[1].old_bid
    /\ requests = <<>>

----------------------------------------------------------------------------
\* Semantic core.

\* lowercased and trimmed
Normalized(text) == IF text = "Buy " THEN "buy" ELSE text

Tiers(c) == <<c.high_priority, c.medium_priority, c.low_priority>>

AllTiers(c) == c.high_priority \o c.medium_priority \o c.low_priority

NormalizedSet(list) == {Normalized(list[k]) : k \in 1..Len(list)}

Occurrences(list, text) ==
    Cardinality({k \in 1..Len(list) : Normalized(list[k]) = text})

Returned == core_pc = "done" /\ semantic_core.status = "returned"

\* C17 as stated: no keyword of a tier of the assembled core has its
\* normalized text in the negative-keyword list.
C17_Original ==
    Returned =>
        NormalizedSet(AllTiers(semantic_core))
            \cap NormalizedSet(semantic_core.negative_keywords) = {}

\* C17: the assembled core holds the three tiers and the negative keywords
\* exactly as the keyword answer gave them, so a keyword that is in a tier
\* and in the negative list stays in both; nothing is dropped and no error
\* is raised on its account.
C17_NegativesNotFiltered ==
    (core_pc = "done" /\ ai_answer.kind = "json" /\ ai_answer.dict.keys = AIKeys) =>
        /\ semantic_core.status = "returned"
        /\ Tiers(semantic_core) = Tiers(ai_answer.dict)
        /\ semantic_core.negative_keywords = ai_answer.dict.negative_keywords

\* a keyword of the top tier whose other spelling is a negative keyword
C17_Witness ==
    /\ Returned
    /\ semantic_core.high_priority = <<"Buy ">>
    /\ semantic_core.negative_keywords = <<"buy">>

\* C18 as stated: a normalized keyword text appears at most once in the
\* tiers of the assembled core, and a keyword of both the keyword answer
\* and the suggestions is kept once, in its tier.
C18_Original ==
    Returned =>
        \A t \in {Normalized(x) : x \in Texts} :
            /\ Occurrences(AllTiers(semantic_core), t) <= 1
            /\ Occurrences(AllTiers(semantic_core), t) = 1 =>
                  \A k \in 1..Len(semantic_core.yandex_suggestions) :
                      Normalized(semantic_core.yandex_suggestions[k].keyword) # t

\* C18: a keyword text is in the tiers of the core as often as in the tiers
\* of the keyword answer, in one tier or in several; the suggestions of the
\* platform are kept apart in yandex_suggestions, one entry for each, also
\* for a keyword that a tier has.
C18_NoDeduplication ==
    Returned =>
        /\ \A t \in {Normalized(x) : x \in Texts} :
              Occurrences(AllTiers(semantic_core), t)
                  = Occurrences(AllTiers(GenerateAIKeywords(ai_answer)), t)
        /\ Len(semantic_core.yandex_suggestions) = Len(suggestions)
        /\ \A k \in 1..Len(suggestions) :
              /\ semantic_core.yandex_suggestions[k].keyword = suggestions[k]
              /\ semantic_core.yandex_suggestions[k].source = "yandex_api"

\* one keyword in two tiers and among the suggestions
C18_Witness ==
    /\ Returned
    /\ semantic_core.high_priority = <<"buy">>
    /\ semantic_core.medium_priority = <<"Buy ">>
    /\ Len(semantic_core.yandex_suggestions) = 1
    /\ semantic_core.yandex_suggestions[1].keyword = "buy"

\* C20 as stated: the assembly fails exactly when the three tiers are all
\* empty, and then returns no core.
C20_Original ==
    core_pc = "done" =>
        (semantic_core.status # "returned"
            <=> AllTiers(GenerateAIKeywords(ai_answer)) = <<>>)

\* C20: the assembly returns a core whenever the keyword dict has its four
\* keys, also when the three tiers are empty, as after a failed keyword
\* request; it fails, with KeyError and without a core, exactly when the
\* dict lacks one of the keys, as after an answer without JSON.
C20_FailsOnMissingKey ==
    core_pc = "done" =>
        /\ semantic_core.status \in {"returned", "KeyError"}
        /\ semantic_core.status = "KeyError" <=>
              (ai_answer.kind = "text"
                  \/ (ai_answer.kind = "json" /\ ai_answer.dict.keys # AIKeys))
        /\ semantic_core.status = "KeyError" =>
              (AllTiers(semantic_core) = <<>> /\ semantic_core.yandex_suggestions = <<>>)
        /\ ai_answer.kind = "exception" =>
              (semantic_core.status = "returned" /\ AllTiers(semantic_core) = <<>>)

\* a core without keywords, returned after a failed keyword request
C20_Witness ==
    /\ core_pc = "done"
    /\ ai_answer.kind = "exception"
    /\ semantic_core.status = "returned"
    /\ AllTiers(semantic_core) = <<>>
    /\ Len(semantic_core.yandex_suggestions) = 1

----------------------------------------------------------------------------
\* Planning run: answers that do not parse, suggestions, the plan file.

\* C21: when the answer of the content generation holds no structured data,
\* the parse gives an empty structure and the step that consumes it
\* (analysis, semantic core, creatives) completes with empty fields.
C21_Original ==
    /\ replies.analysis = "text" =>
          (plan.analysis.status = "defaults" /\ plan.analysis.keywords = <<>>)
    /\ replies.keywords = "text" =>
          (plan.core.status = "returned" /\ AllTiers(plan.core) = <<>>)
    /\ replies.creatives = "text" => plan.creatives = "empty"

\* C22: when the suggestion service is unavailable or answers with an error,
\* planning goes on and the suggestions of the core are the fallback list
\* of at most the first 5 seeds, tagged as fallback.
C22_Original ==
    (replies.suggestions \in {"error", "unavailable"} /\ replies.keywords = "json"
        /\ plan_pc # "raised") =>
        /\ plan.core.status = "returned"
        /\ Len(plan.core.yandex_suggestions) =
              (IF Len(plan.analysis.keywords) < 5 THEN Len(plan.analysis.keywords) ELSE 5)
        /\ \A k \in 1..Len(plan.core.yandex_suggestions) :
              /\ plan.core.yandex_suggestions[k].keyword = plan.analysis.keywords[k]
              /\ plan.core.yandex_suggestions[k].source = "fallback"

Writes == {k \in 1..Len(effects) : effects[k] = "file_write"}

PlanComplete(p) ==
    /\ p.analysis.status # "none"
    /\ p.core.status = "returned"
    /\ p.creatives # "none"
    /\ p.budget_allocation.status = "allocated"

\* C23: the plan is written exactly once, complete, and only after every
\* planning step has finished; it is never read back, and when a planning
\* step raises no plan is written.
C23_PlanWrittenOnceAtEnd ==
    /\ Cardinality(Writes) <= 1
    /\ plan_file.written <=> Writes # {}
    /\ plan_pc = "returned" <=> plan_file.written
    /\ plan_file.written =>
          /\ Writes = {Len(effects)}
          /\ plan_file.business_info = business_info
          /\ plan_file.plan = plan
          /\ PlanComplete(plan_file.plan)
    /\ plan_pc = "raised" => (Writes = {} /\ plan_file = NoFile)
    /\ \A k \in 1..Len(effects) :
          effects[k] \in {"openai_enhance", "http_get", "openai_analysis",
                          "openai_keywords", "yandex_suggestions",
                          "openai_creatives", "file_write"}

\* a run that ended with the plan in the file, its core with a keyword
C23_Witness ==
    /\ plan_pc = "returned"
    /\ plan_file.written
    /\ plan_file.plan.core.high_priority = <<"buy">>
    /\ Len(plan_file.plan.analysis.keywords) = 6
    /\ effects[Len(effects)] = "file_write"

----------------------------------------------------------------------------
\* The plan of a provisioning run.

\* C24: the orchestrator only reads the plan it provisions: no step of a
\* run, successful or not, changes the strategy it was given.
C24_PlanOnlyRead ==
    [][strategy_config' = strategy_config]_vars

\* a run that has ended after the keywords of the first group were sent,
\* with the plan still holding them
C24_Witness ==
    /\ Terminal
    /\ \E k \in 1..Len(calls) :
          /\ calls[k].service = "keywords"
          /\ calls[k].index = 1
          /\ calls[k].n = 2
    /\ Len(groups_config) = 2
    /\ groups_config[1].keywords = 2

----------------------------------------------------------------------------
\* Branches.

BranchCalls == {k \in 1..Len(calls) : calls[k].service \in {"keywords", "ads"}}

\* C25 as stated: the outcome of every branch is recorded in the result, in
\* a slot of that branch, whatever the order of the branches' steps.
C25_Original ==
    pc = "returned" =>
        \A k \in BranchCalls :
            {calls[k].ids[n] : n \in 1..Len(calls[k].ids)} \subseteq SummaryIds(summary)

\* C25: the branches are worked one after the other in a single order, the
\* keyword calls by rising group index and then the ad calls by rising group
\* index; what a keyword or ad call returned is kept nowhere, and the result
\* of a run that succeeds holds the campaign ID and the number of groups
\* only.
C25_BranchesInSequence ==
    /\ \A k, l \in BranchCalls :
          (k < l /\ calls[k].service = calls[l].service) =>
              calls[k].index < calls[l].index
    /\ \A k \in BranchCalls : calls[k].index \in 1..Len(groups_config)
    /\ pc = "returned" =>
          /\ DOMAIN summary = {"campaign_id", "groups_count", "status"}
          /\ summary.campaign_id = campaign_id
          /\ summary.groups_count = Len(group_ids)

\* a run of two groups that succeeded: keywords of 1 and 2, then ads of 1 and 2
C25_Witness ==
    /\ pc = "returned"
    /\ Len(calls) = 6
    /\ <<calls[3].service, calls[3].index>> = <<"keywords", 1>>
    /\ <<calls[4].service, calls[4].index>> = <<"keywords", 2>>
    /\ <<calls[5].service, calls[5].index>> = <<"ads", 1>>
    /\ <<calls[6].service, calls[6].index>> = <<"ads", 2>>
    /\ Len(calls[4].ids) = 2

\* the answer of the platform to the ad-group request of the run
GroupItems ==
    IF \E k \in 1..Len(calls) : calls[k].service = "adgroups"
    THEN calls[CHOOSE k \in 1..Len(calls) : calls[k].service = "adgroups"].items
    ELSE <<>>

ConfiguredFor(service, g) ==
    IF service = "keywords" THEN groups_config[g].keywords ELSE groups_config[g].ads

\* C26: the keywords and ads of the i-th ad-group specification are created
\* only under the ID the platform gave to the group of that i-th
\* specification; a specification whose group was not created gets no
\* keyword or ad request.
C26_UnderOwnGroup ==
    \A k \in BranchCalls :
        LET g == calls[k].index
        IN  /\ g \in 1..Len(GroupItems)
            /\ Len(GroupItems) = Len(groups_config)
            /\ GroupItems[g] > 0
            /\ calls[k].parent = GroupItems[g]
            /\ \A h \in 1..Len(GroupItems) : h # g => calls[k].parent # GroupItems[h]
            /\ calls[k].n = ConfiguredFor(calls[k].service, g)
            /\ \A r \in remote :
                  (r.kind \in {"keyword", "ad"} /\ r.id \in
                      {calls[k].items[n] : n \in 1..Len(calls[k].items)} \ {0})
                    => r.parent = GroupItems[g]

\* the ads of the second of two groups, created under the second group's ID
C26_Witness ==
    /\ Len(GroupItems) = 2
    /\ \E k \in BranchCalls :
          /\ calls[k].service = "ads"
          /\ calls[k].index = 2
          /\ calls[k].parent = GroupItems[2]
          /\ \E r \in remote : r.kind = "ad" /\ r.parent = GroupItems[2]

\* C27: a batch create returns IDs only when no item of the answer carries
\* errors; when an item is rejected it raises, and the IDs of the items the
\* platform did create in that batch do not reach the caller.
C27_AllOrNothing ==
    \A k \in 1..Len(calls) :
        LET c == calls[k]
        IN  /\ ~c.raised =>
                  /\ c.kind = "result"
                  /\ \A n \in 1..Len(c.items) : c.items[n] > 0
                  /\ c.ids = c.items
            /\ (\E n \in 1..Len(c.items) : c.items[n] = 0) =>
                  (c.raised /\ c.ids = <<>>)
            /\ c.raised => c.ids = <<>>

\* a batch of two with one item created and one rejected: the created ID is
\* on the platform and not in the hands of the caller
C27_Witness ==
    \E k \in 1..Len(calls) :
        /\ Len(calls[k].items) = 2
        /\ calls[k].items[1] > 0
        /\ calls[k].items[2] = 0
        /\ calls[k].raised
        /\ calls[k].ids = <<>>
        /\ \E r \in remote : r.id = calls[k].items[1]

KeywordGroups == {g \in 1..Len(groups_config) : groups_config[g].keywords > 0}

\* C28: no ad request is sent before the keyword call of every group has
\* returned; a keyword failure in one group means that no ad is created for
\* any group and that the run raises, the campaign and the groups staying.
C28_KeywordBarrier ==
    /\ \A l \in 1..Len(calls) :
          calls[l].service = "ads" =>
              \A g \in KeywordGroups :
                  \E k \in 1..(l - 1) :
                      /\ calls[k].service = "keywords"
                      /\ calls[k].index = g
                      /\ ~calls[k].raised
    /\ (\E k \in 1..Len(calls) : calls[k].service = "keywords" /\ calls[k].raised) =>
          /\ pc = "raised"
          /\ summary = NoResult
          /\ ~\E l \in 1..Len(calls) : calls[l].service = "ads"
          /\ ~\E r \in remote : r.kind = "ad"
          /\ \E r \in remote : r.kind = "campaign" /\ r.id = campaign_id
          /\ \A g \in 1..Len(group_ids) :
                \E r \in remote : r.kind = "adgroup" /\ r.id = group_ids[g]

\* the keywords of the second group fail after those of the first were made
C28_Witness ==
    /\ pc = "raised"
    /\ Len(calls) = 4
    /\ calls[3].service = "keywords" /\ ~calls[3].raised
    /\ calls[4].service = "keywords" /\ calls[4].raised /\ calls[4].index = 2
    /\ groups_config[1].ads > 0
    /\ \E r \in remote : r.kind = "keyword"

----------------------------------------------------------------------------
\* Bids of zero, and the launch.

\* C29: optimize_keyword_bids returns one entry for each entry of its input,
\* in the order of the input, for every list and every target position,
\* also when a current bid is 0 or missing.
C29_Original ==
    rebid_pc \notin {"start", "idle"} =>
        /\ rebid_pc = "optimized"
        /\ Len(optimized_bids) = Len(keyword_bids)
        /\ \A k \in 1..Len(optimized_bids) :
              optimized_bids[k].keyword = keyword_bids[k].keyword

====
